---- MODULE Spec2Model ----
(***************************************************************************)
(* Model of doc-ai/donut/donut-train-custom.py: the JSON <-> token-sequence *)
(* codec of DonutDataset (json2token / add_tokens), the module-level script *)
(* that builds the tokenizer vocabulary, the datasets and the loaders, and  *)
(* the string processing of DonutModelPLModule.validation_step.             *)
(*                                                                         *)
(* Python strings are sequences of one-character strings, so that          *)
(* formatting, regular-expression substitution, strip() and the edit       *)
(* distance are computed character by character as the code computes them. *)
(***************************************************************************)
EXTENDS Integers, Sequences, FiniteSets, TLC

(***************************************************************************)
(* Bounds of the model.                                                    *)
(***************************************************************************)
MaxTrain == 2
MaxVal == 1

(***************************************************************************)
(* Program constants.                                                      *)
(***************************************************************************)
max_length == 768
ignore_id == -100

(***************************************************************************)
(* Strings.                                                                *)
(***************************************************************************)
Range(s) == {s[i] : i \in 1..Len(s)}

Min(S) == CHOOSE m \in S : \A n \in S : m <= n

Max2(a, b) == IF a >= b THEN a ELSE b

\* p occurs in s starting at position i
OccursAt(s, p, i) ==
    /\ i >= 1
    /\ i + Len(p) - 1 <= Len(s)
    /\ \A j \in 1..Len(p) : s[i + j - 1] = p[j]

\* str.find(p, from): the first position >= from where p occurs, 0 when none
Find(s, p, from) ==
    LET hits == {i \in from..(Len(s) - Len(p) + 1) : OccursAt(s, p, i)}
    IN  IF hits = {} THEN 0 ELSE Min(hits)

Contains(s, p) == Find(s, p, 1) # 0

RECURSIVE ReplaceFrom(_, _, _)
\* s[i..] with every non-overlapping occurrence of p (non-empty) removed
ReplaceFrom(s, p, i) ==
    IF i > Len(s) THEN <<>>
    ELSE IF OccursAt(s, p, i) THEN ReplaceFrom(s, p, i + Len(p))
    ELSE <<s[i]>> \o ReplaceFrom(s, p, i + 1)

\* str.replace(p, "")
Remove(s, p) == ReplaceFrom(s, p, 1)

\* str.strip(): the only whitespace character of the model's alphabet is " "
Strip(s) ==
    LET keep == {i \in 1..Len(s) : s[i] # " "}
    IN  IF keep = {} THEN <<>>
        ELSE SubSeq(s, Min(keep), CHOOSE m \in keep : \A n \in keep : n <= m)

(***************************************************************************)
(* The tokenizer of DonutProcessor.from_pretrained("naver-clova-ix/        *)
(* donut-base"): its special tokens, in id order, and the one-character    *)
(* pieces that stand for its sentencepiece vocabulary.                     *)
(***************************************************************************)
bos_token == <<"<", "s", ">">>
pad_token == <<"<", "p", "a", "d", ">">>
eos_token == <<"<", "/", "s", ">">>
unk_token == <<"<", "u", "n", "k", ">">>

SpecialTokens == <<bos_token, pad_token, eos_token, unk_token>>

Alphabet == <<" ", ".", "/", "<", ">", "_", "0", "1", "2", "5", "7",
              "A", "C", "E", "F", "M", "N", "T",
              "a", "b", "c", "e", "i", "l", "m", "n", "o", "p", "r", "s",
              "t", "u", "v", "x", "y">>

IndexOf(seq, x) == Min({i \in 1..Len(seq) : seq[i] = x})

\* len(tokenizer) of the pretrained tokenizer
BaseSize == Len(SpecialTokens) + Len(Alphabet)

pad_token_id == IndexOf(SpecialTokens, pad_token) - 1
eos_token_id == IndexOf(SpecialTokens, eos_token) - 1
unk_token_id == IndexOf(SpecialTokens, unk_token) - 1

\* the task start token the script passes to both datasets
TaskStartToken == <<"<", "s", "_", "i", "n", "v", "o", "i", "c", "e", ">">>

(***************************************************************************)
(* The tokenizer's state is the sequence of tokens added so far: the       *)
(* token added k-th has id BaseSize + k - 1.                               *)
(***************************************************************************)
\* the lookup forgets the tokens added since the tokenizer was loaded
InTokenizerBaseOnly(tok, vocab) ==
    \/ tok \in Range(SpecialTokens)
    \/ Len(tok) = 1 /\ tok[1] \in Range(Alphabet)
InTokenizer(tok, vocab) ==
    \/ tok \in Range(SpecialTokens)
    \/ Len(tok) = 1 /\ tok[1] \in Range(Alphabet)
    \/ tok \in Range(vocab)

\* tokenizer.convert_tokens_to_ids(tok)
convert_tokens_to_ids(tok, vocab) ==
    IF tok \in Range(SpecialTokens) THEN IndexOf(SpecialTokens, tok) - 1
    ELSE IF Len(tok) = 1 /\ tok[1] \in Range(Alphabet)
         THEN Len(SpecialTokens) + IndexOf(Alphabet, tok[1]) - 1
    ELSE IF tok \in Range(vocab) THEN BaseSize + IndexOf(vocab, tok) - 1
    ELSE unk_token_id

\* tokenizer.convert_ids_to_tokens(id), as batch_decode renders one id
TokenText(id, vocab) ==
    IF id < Len(SpecialTokens) THEN SpecialTokens[id + 1]
    ELSE IF id < BaseSize THEN <<Alphabet[id - Len(SpecialTokens) + 1]>>
    ELSE IF id - BaseSize + 1 <= Len(vocab) THEN vocab[id - BaseSize + 1]
    ELSE unk_token

RECURSIVE TokenizerAdd(_, _, _)
\* tokenizer.add_tokens(list): the tokens of list[i..] that are new, appended in order
TokenizerAdd(list, i, vocab) ==
    IF i > Len(list) THEN vocab
    ELSE IF list[i] # unk_token /\ ~InTokenizer(list[i], vocab)
         THEN TokenizerAdd(list, i + 1, Append(vocab, list[i]))
    ELSE TokenizerAdd(list, i + 1, vocab)

(***************************************************************************)
(* The vocabulary state the codec mutates: the tokenizer's added tokens    *)
(* (vocab), the module-level list added_tokens (added) and the number of   *)
(* rows of the decoder's embedding table (emb).                            *)
(***************************************************************************)
\* added_tokens is assigned instead of extended
add_tokens_assign(list_of_tokens, w) ==
    LET vocab2 == TokenizerAdd(list_of_tokens, 1, w.vocab)
        newly_added_num == Len(vocab2) - Len(w.vocab)
    IN  IF newly_added_num > 0
        THEN [vocab |-> vocab2,
              added |-> list_of_tokens,
              emb   |-> BaseSize + Len(vocab2)]
        ELSE w
add_tokens(list_of_tokens, w) ==
    LET vocab2 == TokenizerAdd(list_of_tokens, 1, w.vocab)
        newly_added_num == Len(vocab2) - Len(w.vocab)
    IN  IF newly_added_num > 0
        THEN [vocab |-> vocab2,
              added |-> w.added \o list_of_tokens,
              emb   |-> BaseSize + Len(vocab2)]
        ELSE w

(***************************************************************************)
(* Structured values, as json.loads returns them.  A mapping is            *)
(* <<"dict", items>> with items the sequence of <<key, value>> pairs in    *)
(* insertion order (keys distinct); the leaves are <<"str", chars>>,       *)
(* <<"int", n>>, <<"bool", b>> and <<"null">>.                             *)
(***************************************************************************)
DictV(items) == <<"dict", items>>
StrV(chars) == <<"str", chars>>
IntV(n) == <<"int", n>>
BoolV(b) == <<"bool", b>>
NullV == <<"null">>

IsDict(obj) == obj[1] = "dict"

Digits == <<"0", "1", "2", "3", "4", "5", "6", "7", "8", "9">>

RECURSIVE NatStr(_)
NatStr(n) == IF n < 10 THEN <<Digits[n + 1]>>
             ELSE NatStr(n \div 10) \o <<Digits[(n % 10) + 1]>>

\* str(obj) of a leaf
PyStr(obj) ==
    CASE obj[1] = "str"  -> obj[2]
      [] obj[1] = "int"  -> IF obj[2] < 0 THEN <<"-">> \o NatStr(-obj[2]) ELSE NatStr(obj[2])
      [] obj[1] = "bool" -> IF obj[2] THEN <<"T", "r", "u", "e">>
                                      ELSE <<"F", "a", "l", "s", "e">>
      [] obj[1] = "null" -> <<"N", "o", "n", "e">>

\* fr"<s_{k}>" and fr"</s_{k}>"
OpenTag(k) == <<"<", "s", "_">> \o k \o <<">">>
\* a close tag formatted without its slash
CloseTagNoSlash(k) == <<"<", "s", "_">> \o k \o <<">">>
CloseTag(k) == <<"<", "/", "s", "_">> \o k \o <<">">>

\* only the open tag is registered
KeyTokensOpenOnly(k) == <<OpenTag(k)>>
\* the list json2token hands to add_tokens for key k
KeyTokens(k) == <<OpenTag(k), CloseTag(k)>>

RECURSIVE json2token(_, _, _)
RECURSIVE json2tokenItems(_, _, _, _, _)
\* the loop over obj.keys() from item i on: output so far and vocabulary state so far
json2tokenItems(items, i, update_special_tokens_for_json_key, output, w) ==
    IF i > Len(items) THEN [output |-> output, w |-> w]
    ELSE LET k  == items[i][1]
             w1 == IF update_special_tokens_for_json_key
                   THEN add_tokens(KeyTokens(k), w)
                   ELSE w
             r  == json2token(items[i][2], update_special_tokens_for_json_key, w1)
         IN  json2tokenItems(items, i + 1, update_special_tokens_for_json_key,
                             output \o OpenTag(k) \o r.output \o CloseTag(k), r.w)

\* DonutDataset.json2token: the returned string and the vocabulary state it leaves
json2token(obj, update_special_tokens_for_json_key, w) ==
    IF IsDict(obj)
    THEN json2tokenItems(obj[2], 1, update_special_tokens_for_json_key, <<>>, w)
    ELSE [output |-> PyStr(obj), w |-> w]

(***************************************************************************)
(* The records the datasets are drawn from (the "entities" of a sample,    *)
(* after json.loads).                                                      *)
(***************************************************************************)
ka == <<"a">>
kb == <<"b">>
kc == <<"c">>
kcompany == <<"c", "o", "m", "p", "a", "n", "y">>
ktotal == <<"t", "o", "t", "a", "l">>
kinvoice == <<"i", "n", "v", "o", "i", "c", "e">>

\* {"company": "ACME", "total": "12.50"}
ExampleRecord ==
    DictV(<< <<kcompany, StrV(<<"A", "C", "M", "E">>)>>,
             <<ktotal, StrV(<<"1", "2", ".", "5", "0">>)>> >>)
\* {"a": {"b": true, "a": null}, "b": 7}
NestedRecord ==
    DictV(<< <<ka, DictV(<< <<kb, BoolV(TRUE)>>, <<ka, NullV>> >>)>>,
             <<kb, IntV(7)>> >>)
\* {"a": {}}
EmptyNestedRecord == DictV(<< <<ka, DictV(<<>>)>> >>)
\* {"invoice": "x"}
TaskKeyRecord == DictV(<< <<kinvoice, StrV(<<"x">>)>> >>)
\* {"c": "y"}
UnseenKeyRecord == DictV(<< <<kc, StrV(<<"y">>)>> >>)
\* "100.00"
AmountLeaf == StrV(<<"1", "0", "0", ".", "0", "0">>)
\* {}
EmptyRecord == DictV(<<>>)
\* {"a": "x ", "b": " y"}
SpacedRecord ==
    DictV(<< <<ka, StrV(<<"x", " ">>)>>, <<kb, StrV(<<" ", "y">>)>> >>)

TrainValues == {ExampleRecord, NestedRecord, EmptyNestedRecord, TaskKeyRecord}

ValValues == {TaskKeyRecord, UnseenKeyRecord, AmountLeaf, EmptyRecord}

SeqsUpTo(S, n) == UNION {[1..m -> S] : m \in 0..n}

(***************************************************************************)
(* State.                                                                  *)
(***************************************************************************)
VARIABLES
    pc,                      \* position of the script
    tok_vocab,               \* tokens added to processor.tokenizer, in id order
    added_tokens,            \* the module-level list added_tokens
    embed_rows,              \* rows of model.decoder's token embedding
    decoder_start_token_id,  \* model.config.decoder_start_token_id
    train_ds,                \* train_dataset, the DonutDataset of split "train"
    val_ds,                  \* val_dataset, the DonutDataset of split "validation"
    loaders,                 \* whether train_dataloader / val_dataloader exist
    fetched,                 \* what the last __getitem__ returned
    val_out                  \* what the last validation_step computed

vars == <<pc, tok_vocab, added_tokens, embed_rows, decoder_start_token_id,
          train_ds, val_ds, loaders, fetched, val_out>>

World == [vocab |-> tok_vocab, added |-> added_tokens, emb |-> embed_rows]

\* a DonutDataset whose __init__ has not run its loop yet
NewDataset(dataset, split) ==
    [dataset |-> dataset, split |-> split,
     task_start_token |-> TaskStartToken, prompt_end_token |-> TaskStartToken,
     gt_token_sequences |-> <<>>, prompt_end_token_id |-> -1]

NoFetch == [split |-> "none", idx |-> 0, target_sequence |-> <<>>,
            input_ids |-> <<>>, n_ignored |-> 0]

NoValOut == [idx |-> 0, seq |-> <<>>, pred |-> <<>>, answer |-> <<>>,
             num |-> 0, den |-> 0, raised |-> "none"]

Init ==
    /\ pc = "start"
    /\ tok_vocab = <<>>
    /\ added_tokens = <<>>
    /\ embed_rows = BaseSize
    /\ decoder_start_token_id = -1
    /\ \E d \in SeqsUpTo(TrainValues, MaxTrain) : train_ds = NewDataset(d, "train")
    /\ \E d \in SeqsUpTo(ValValues, MaxVal) : val_ds = NewDataset(d, "validation")
    /\ loaders = FALSE
    /\ fetched = NoFetch
    /\ val_out = NoValOut

(***************************************************************************)
(* The script, lines 180-191.                                              *)
(***************************************************************************)
\* the token whose id line 181 looks up
StartTokenLookup == convert_tokens_to_ids(TaskStartToken, tok_vocab)

\* model.config.decoder_start_token_id = convert_tokens_to_ids(['<s_invoice>'])[0]
SetDecoderStart ==
    /\ pc = "start"
    /\ decoder_start_token_id' = StartTokenLookup
    /\ pc' = "train_init"
    /\ UNCHANGED <<tok_vocab, added_tokens, embed_rows, train_ds, val_ds,
                   loaders, fetched, val_out>>

\* the vocabulary grows for every split
UpdateFlagAlways(split) == TRUE
\* update_special_tokens_for_json_key=self.split == "train"
UpdateFlag(split) == split = "train"

\* one iteration of the loop of DonutDataset.__init__ over self.dataset
EncodeNext(ds, w) ==
    LET sample == ds.dataset[Len(ds.gt_token_sequences) + 1]
        r == json2token(sample, UpdateFlag(ds.split), w)
    IN  [ds |-> [ds EXCEPT !.gt_token_sequences = Append(@, r.output \o eos_token)],
         w  |-> r.w]

\* the tokens __init__ adds after its loop
InitTokens(ds) == <<ds.task_start_token, ds.prompt_end_token>>

\* the end of DonutDataset.__init__: add_tokens and prompt_end_token_id
FinishInit(ds, w) ==
    LET w2 == add_tokens(InitTokens(ds), w)
    IN  [ds |-> [ds EXCEPT !.prompt_end_token_id =
                               convert_tokens_to_ids(ds.prompt_end_token, w2.vocab)],
         w  |-> w2]

LoopDone(ds) == Len(ds.gt_token_sequences) = Len(ds.dataset)

SetWorld(w) ==
    /\ tok_vocab' = w.vocab
    /\ added_tokens' = w.added
    /\ embed_rows' = w.emb

TrainEncode ==
    /\ pc = "train_init"
    /\ ~LoopDone(train_ds)
    /\ LET r == EncodeNext(train_ds, World)
       IN  train_ds' = r.ds /\ SetWorld(r.w)
    /\ UNCHANGED <<pc, decoder_start_token_id, val_ds, loaders, fetched, val_out>>

TrainFinish ==
    /\ pc = "train_init"
    /\ LoopDone(train_ds)
    /\ LET r == FinishInit(train_ds, World)
       IN  train_ds' = r.ds /\ SetWorld(r.w)
    /\ pc' = "val_init"
    /\ UNCHANGED <<decoder_start_token_id, val_ds, loaders, fetched, val_out>>

ValEncode ==
    /\ pc = "val_init"
    /\ ~LoopDone(val_ds)
    /\ LET r == EncodeNext(val_ds, World)
       IN  val_ds' = r.ds /\ SetWorld(r.w)
    /\ UNCHANGED <<pc, decoder_start_token_id, train_ds, loaders, fetched, val_out>>

ValFinish ==
    /\ pc = "val_init"
    /\ LoopDone(val_ds)
    /\ LET r == FinishInit(val_ds, World)
       IN  val_ds' = r.ds /\ SetWorld(r.w)
    /\ pc' = "loaders"
    /\ UNCHANGED <<decoder_start_token_id, train_ds, loaders, fetched, val_out>>

\* train_dataloader = DataLoader(...); val_dataloader = DataLoader(...)
CreateLoaders ==
    /\ pc = "loaders"
    /\ loaders' = TRUE
    /\ pc' = "fit"
    /\ UNCHANGED <<tok_vocab, added_tokens, embed_rows, decoder_start_token_id,
                   train_ds, val_ds, fetched, val_out>>

(***************************************************************************)
(* DonutDataset.__getitem__: the tokenizer call on the target sequence.    *)
(***************************************************************************)
Longest(S) == CHOOSE t \in S : \A u \in S : Len(u) <= Len(t)

RECURSIVE TokenizeFrom(_, _, _)
\* ids of s[i..]: a special or added token where one starts, else the character's piece
TokenizeFrom(s, i, vocab) ==
    IF i > Len(s) THEN <<>>
    ELSE LET here == {t \in Range(SpecialTokens) \cup Range(vocab) : OccursAt(s, t, i)}
         IN  IF here # {}
             THEN <<convert_tokens_to_ids(Longest(here), vocab)>>
                      \o TokenizeFrom(s, i + Len(Longest(here)), vocab)
             ELSE <<convert_tokens_to_ids(<<s[i]>>, vocab)>>
                      \o TokenizeFrom(s, i + 1, vocab)

\* truncation=True, max_length=self.max_length
Truncate(ids) == IF Len(ids) > max_length THEN SubSeq(ids, 1, max_length) ELSE ids

\* labels[labels == pad_token_id] = ignore_id, on the unpadded part
MaskPad(ids) == [i \in 1..Len(ids) |-> IF ids[i] = pad_token_id THEN ignore_id ELSE ids[i]]

\* what __getitem__(idx) returns: the target sequence and the labels (the
\* max_length - Len(labels) padding positions, all ignore_id, are counted)
GetItemResult(ds, idx, vocab) ==
    LET target_sequence == ds.gt_token_sequences[idx]
        input_ids == Truncate(TokenizeFrom(target_sequence, 1, vocab))
    IN  [split |-> ds.split, idx |-> idx, target_sequence |-> target_sequence,
         input_ids |-> MaskPad(input_ids), n_ignored |-> max_length - Len(input_ids)]

GetItem ==
    /\ pc = "fit"
    /\ loaders
    /\ \E ds \in {train_ds, val_ds} :
         \E idx \in 1..Len(ds.dataset) :
            fetched' = GetItemResult(ds, idx, tok_vocab)
    /\ val_out' = NoValOut
    /\ UNCHANGED <<pc, tok_vocab, added_tokens, embed_rows, decoder_start_token_id,
                   train_ds, val_ds, loaders>>

(***************************************************************************)
(* DonutModelPLModule.validation_step on a batch of one.                   *)
(***************************************************************************)
\* re.sub(r"<.*?>", "", seq, count=1): the first "<" up to the first ">" after it
RemoveFirstTag(seq) ==
    LET lt == Find(seq, <<"<">>, 1)
        gt == IF lt = 0 THEN 0 ELSE Find(seq, <<">">>, lt + 1)
    IN  IF gt = 0 THEN seq
        ELSE SubSeq(seq, 1, lt - 1) \o SubSeq(seq, gt + 1, Len(seq))

\* whether re.sub(r"(?:(?<=>) | (?=</s_))", "", pred) removes position i of pred
SeparatorSpace(pred, i) ==
    /\ pred[i] = " "
    /\ \/ i > 1 /\ pred[i - 1] = ">"
       \/ OccursAt(pred, <<"<", "/", "s", "_">>, i + 1)

RECURSIVE KeepFrom(_, _)
KeepFrom(pred, i) ==
    IF i > Len(pred) THEN <<>>
    ELSE (IF SeparatorSpace(pred, i) THEN <<>> ELSE <<pred[i]>>) \o KeepFrom(pred, i + 1)

\* re.sub(r"(?:(?<=>) | (?=</s_))", "", pred)
RemoveSeparatorSpaces(pred) == KeepFrom(pred, 1)

\* line 134: seq.replace(eos_token, "").replace(pad_token, "")
StripMarkers(seq) == Remove(Remove(seq, eos_token), pad_token)

\* line 135: re.sub(r"<.*?>", "", seq, count=1).strip()
StripTaskTag(seq) == Strip(RemoveFirstTag(seq))

\* lines 134-135: one decoded sequence to one entry of predictions
Prediction(seq) == StripTaskTag(StripMarkers(seq))

\* lines 134-135 and 140: the prediction string that is scored
CleanPrediction(seq) == RemoveSeparatorSpaces(Prediction(seq))

\* line 141
CleanAnswer(answer) == Remove(answer, eos_token)

Min3(a, b, c) == IF a <= b /\ a <= c THEN a ELSE IF b <= c THEN b ELSE c

RECURSIVE LevRow(_, _, _, _)
\* The row of the distance table for one more character c of b, extended one
\* column at a time: entry i+1 is the distance of a[1..i] to b[1..j].
LevRow(prev, a, c, row) ==
    LET i == Len(row)
    IN  IF i > Len(a) THEN row
        ELSE LevRow(prev, a, c,
                    Append(row, Min3(prev[i + 1] + 1,
                                     row[i] + 1,
                                     prev[i] + (IF a[i] = c THEN 0 ELSE 1))))

RECURSIVE LevRows(_, _, _, _)
LevRows(prev, a, b, j) ==
    IF Len(prev) > 0 /\ j > Len(b) THEN prev[Len(a) + 1]
    ELSE LevRows(LevRow(prev, a, b[j], <<j>>), a, b, j + 1)

\* nltk.edit_distance(a, b): insertions, deletions and substitutions cost 1
edit_distance(a, b) == LevRows([i \in 1..(Len(a) + 1) |-> i - 1], a, b, 1)

\* the score reported as a similarity, 1 - distance
ScoreSimilarity(pred, answer) ==
    LET den == Max2(Len(pred), Len(answer))
    IN  IF den = 0 THEN [num |-> 0, den |-> 0, raised |-> "ZeroDivisionError"]
        ELSE [num |-> den - edit_distance(pred, answer), den |-> den, raised |-> "none"]
\* line 142: edit_distance(pred, answer) / max(len(pred), len(answer)), as the
\* fraction num/den, or the ZeroDivisionError the division raises
Score(pred, answer) ==
    LET den == Max2(Len(pred), Len(answer))
    IN  IF den = 0 THEN [num |-> 0, den |-> 0, raised |-> "ZeroDivisionError"]
        ELSE [num |-> edit_distance(pred, answer), den |-> den, raised |-> "none"]

DropLast(s) == SubSeq(s, 1, Len(s) - 1)

RECURSIVE SpaceAfterTags(_, _)
SpaceAfterTags(s, i) ==
    IF i > Len(s) THEN <<>>
    ELSE <<s[i]>> \o (IF s[i] = ">" THEN <<" ">> ELSE <<>>) \o SpaceAfterTags(s, i + 1)

\* what batch_decode(outputs.sequences) may hold for an item whose ground truth
\* is `answer`: the decoder start token, then the model's generation
Generated(start, answer) ==
    {start \o answer \o eos_token,
     start \o DropLast(answer) \o eos_token \o pad_token,
     start \o SpaceAfterTags(answer, 1) \o eos_token,
     start \o eos_token}

ValidationResult(seq, batch) ==
    LET pred == CleanPrediction(seq)
        answer == CleanAnswer(batch.target_sequence)
        sc == Score(pred, answer)
    IN  [idx |-> batch.idx, seq |-> seq, pred |-> pred, answer |-> answer,
         num |-> sc.num, den |-> sc.den, raised |-> sc.raised]

ValidationStep ==
    /\ pc = "fit"
    /\ fetched.split = "validation"
    /\ \E seq \in Generated(TokenText(decoder_start_token_id, tok_vocab),
                            CleanAnswer(fetched.target_sequence)) :
          val_out' = ValidationResult(seq, fetched)
    /\ pc' = IF val_out'.raised = "none" THEN "fit" ELSE "crashed"
    /\ fetched' = NoFetch
    /\ UNCHANGED <<tok_vocab, added_tokens, embed_rows, decoder_start_token_id,
                   train_ds, val_ds, loaders>>

Next ==
    \/ SetDecoderStart
    \/ TrainEncode
    \/ TrainFinish
    \/ ValEncode
    \/ ValFinish
    \/ CreateLoaders
    \/ GetItem
    \/ ValidationStep

Spec == Init /\ [][Next]_vars

(***************************************************************************)
(* validation_step line by line, on a batch of one whose decoded sequence  *)
(* starts with the task start token.  The batch is an item of a validation *)
(* dataset built after an empty training dataset.                          *)
(***************************************************************************)
CleanupValues == ValValues \cup {SpacedRecord, ExampleRecord}

EmptyWorld == [vocab |-> <<>>, added |-> <<>>, emb |-> BaseSize]

InitValidation ==
    \E v \in CleanupValues :
       LET tr == FinishInit(NewDataset(<<>>, "train"), EmptyWorld)
           en == EncodeNext(NewDataset(<<v>>, "validation"), tr.w)
           va == FinishInit(en.ds, en.w)
           batch == GetItemResult(va.ds, 1, va.w.vocab)
       IN  /\ pc = "decoded"
           /\ tok_vocab = va.w.vocab
           /\ added_tokens = va.w.added
           /\ embed_rows = va.w.emb
           /\ decoder_start_token_id = convert_tokens_to_ids(TaskStartToken, <<>>)
           /\ train_ds = tr.ds
           /\ val_ds = va.ds
           /\ loaders = TRUE
           /\ fetched = batch
           /\ \E seq \in Generated(TaskStartToken, CleanAnswer(batch.target_sequence)) :
                 val_out = [idx |-> 1, seq |-> seq, pred |-> seq,
                            answer |-> batch.target_sequence,
                            num |-> 0, den |-> 0, raised |-> "none"]

KeepPipeline ==
    UNCHANGED <<tok_vocab, added_tokens, embed_rows, decoder_start_token_id,
                train_ds, val_ds, loaders, fetched>>

Line134 ==
    /\ pc = "decoded"
    /\ val_out' = [val_out EXCEPT !.pred = StripMarkers(@)]
    /\ pc' = "markers_removed"
    /\ KeepPipeline

Line135 ==
    /\ pc = "markers_removed"
    /\ val_out' = [val_out EXCEPT !.pred = StripTaskTag(@)]
    /\ pc' = "prediction"
    /\ KeepPipeline

Line140 ==
    /\ pc = "prediction"
    /\ val_out' = [val_out EXCEPT !.pred = RemoveSeparatorSpaces(@)]
    /\ pc' = "normalized"
    /\ KeepPipeline

Line141 ==
    /\ pc = "normalized"
    /\ val_out' = [val_out EXCEPT !.answer = CleanAnswer(@)]
    /\ pc' = "answer_cleaned"
    /\ KeepPipeline

Line142 ==
    /\ pc = "answer_cleaned"
    /\ LET sc == Score(val_out.pred, val_out.answer)
       IN  /\ val_out' = [val_out EXCEPT !.num = sc.num, !.den = sc.den,
                                         !.raised = sc.raised]
           /\ pc' = IF sc.raised = "none" THEN "scored" ELSE "crashed"
    /\ KeepPipeline

NextValidation == Line134 \/ Line135 \/ Line140 \/ Line141 \/ Line142

SpecValidation == InitValidation /\ [][NextValidation]_vars

(***************************************************************************)
(* Decode (processor.token2json, a method of the transformers library that *)
(* the evaluation loop calls), as the specification describes it: spaces   *)
(* that only separate are dropped, then the sequence is scanned left to    *)
(* right; an open tag <s_k> takes the content up to the first </s_k>, or   *)
(* all that remains when there is none, as the value of k; content without *)
(* an open tag is a string leaf.                                           *)
(***************************************************************************)
DecodeSeparator(s, i) ==
    /\ s[i] = " "
    /\ \/ OccursAt(s, <<"<", "/", "s", "_">>, i + 1)
       \/ i > 1 /\ s[i - 1] = ">" /\ OccursAt(s, <<"<", "s", "_">>, i + 1)

RECURSIVE DecodeNormalize(_, _)
DecodeNormalize(s, i) ==
    IF i > Len(s) THEN <<>>
    ELSE (IF DecodeSeparator(s, i) THEN <<>> ELSE <<s[i]>>) \o DecodeNormalize(s, i + 1)

\* items with key k mapped to v: a key already present keeps its position
PutItem(items, k, v) ==
    IF \E i \in 1..Len(items) : items[i][1] = k
    THEN [i \in 1..Len(items) |-> IF items[i][1] = k THEN <<k, v>> ELSE items[i]]
    ELSE Append(items, <<k, v>>)

\* the position of the first open tag of s that is closed by a ">", 0 when none
FirstOpenTag(s) ==
    LET at == Find(s, <<"<", "s", "_">>, 1)
    IN  IF at # 0 /\ Find(s, <<">">>, at) # 0 THEN at ELSE 0

RECURSIVE DecodeValue(_)
RECURSIVE DecodeItems(_, _)
DecodeItems(s, items) ==
    LET at == FirstOpenTag(s)
    IN  IF at = 0 THEN items
        ELSE LET gt == Find(s, <<">">>, at)
                 k == SubSeq(s, at + 3, gt - 1)
                 closing == <<"<", "/", "s", "_">> \o k \o <<">">>
                 close == Find(s, closing, gt + 1)
             IN  IF close = 0
                 THEN PutItem(items, k, DecodeValue(SubSeq(s, gt + 1, Len(s))))
                 ELSE DecodeItems(SubSeq(s, close + Len(closing), Len(s)),
                                  PutItem(items, k, DecodeValue(SubSeq(s, gt + 1, close - 1))))

DecodeValue(s) ==
    IF FirstOpenTag(s) = 0 THEN StrV(s) ELSE DictV(DecodeItems(s, <<>>))

Decode(tokenSequence) == DecodeValue(DecodeNormalize(tokenSequence, 1))

(***************************************************************************)
(* Properties.                                                             *)
(***************************************************************************)
Encoded(ds) == 1..Len(ds.gt_token_sequences)

RECURSIVE Linearized(_)
RECURSIVE LinearizedItems(_, _)
LinearizedItems(items, i) ==
    IF i > Len(items) THEN <<>>
    ELSE <<"<", "s", "_">> \o items[i][1] \o <<">">>
            \o Linearized(items[i][2])
            \o <<"<", "/", "s", "_">> \o items[i][1] \o <<">">>
            \o LinearizedItems(items, i + 1)
\* the linearization the codec is specified to produce
Linearized(v) ==
    IF v[1] = "dict" THEN LinearizedItems(v[2], 1)
    ELSE IF v[1] = "str" THEN v[2]
    ELSE PyStr(v)

ExampleSequence ==
    <<"<", "s", "_", "c", "o", "m", "p", "a", "n", "y", ">", "A", "C", "M", "E",
      "<", "/", "s", "_", "c", "o", "m", "p", "a", "n", "y", ">",
      "<", "s", "_", "t", "o", "t", "a", "l", ">", "1", "2", ".", "5", "0",
      "<", "/", "s", "_", "t", "o", "t", "a", "l", ">">>

\* C1: every stored ground-truth sequence is the linearization of its record
\* (per key, in order: open tag, encoded value, close tag, no separator; a leaf
\* verbatim) followed by the end-of-sequence token; the example record encodes
\* to the documented string; and a record encodes to the same string with
\* vocabulary growth (training split) and without (validation split).
C1_EncodeLinearizes ==
    /\ \A ds \in {train_ds, val_ds} : \A i \in Encoded(ds) :
          /\ ds.gt_token_sequences[i] = Linearized(ds.dataset[i]) \o eos_token
          /\ ds.dataset[i] = ExampleRecord
                => ds.gt_token_sequences[i] = ExampleSequence \o eos_token
    /\ \A i \in Encoded(train_ds) : \A j \in Encoded(val_ds) :
          train_ds.dataset[i] = val_ds.dataset[j]
             => train_ds.gt_token_sequences[i] = val_ds.gt_token_sequences[j]

C1_Witness ==
    /\ \E i \in Encoded(train_ds) : train_ds.dataset[i] = ExampleRecord
    /\ \E i \in Encoded(train_ds) : \E j \in Encoded(val_ds) :
          train_ds.dataset[i] = val_ds.dataset[j]

\* a read-only use of the vocabulary has begun: a validation record was encoded
\* without growth, the loaders exist, or an item was fetched and tokenized
ReadOnlyUse ==
    \/ Len(val_ds.gt_token_sequences) > 0
    \/ loaders
    \/ fetched.split # "none"

TrainInitDone == LoopDone(train_ds) /\ pc \notin {"start", "train_init"}

\* C3: a step that performs or follows a read-only use of the vocabulary starts
\* with every training record encoded and the training dataset constructed,
\* and does not grow the vocabulary.
C3_GrowthBeforeReadOnlyUse ==
    [][ReadOnlyUse' => /\ TrainInitDone
                       /\ tok_vocab' = tok_vocab
                       /\ added_tokens' = added_tokens
                       /\ embed_rows' = embed_rows]_vars

C3_Witness ==
    /\ fetched.split = "validation"
    /\ Len(train_ds.dataset) = MaxTrain
    /\ Len(tok_vocab) > 1

VocabularyChanged == tok_vocab' # tok_vocab \/ added_tokens' # added_tokens

\* a step that is one json2token call with update_special_tokens_for_json_key true
EncodeGrowStep ==
    /\ pc = "train_init"
    /\ Len(train_ds'.gt_token_sequences) = Len(train_ds.gt_token_sequences) + 1

\* C4 as stated: only an Encode(..., true) step changes the vocabulary.
C4_OnlyEncodeMutates == [][VocabularyChanged => EncodeGrowStep]_vars

\* C4 as amended: the vocabulary is changed only by an Encode(..., true) step or
\* by the end of the training dataset's construction, which adds nothing but the
\* task start token; every other step leaves it unchanged.
C4_OnlyTrainInitMutates ==
    [][VocabularyChanged =>
          \/ EncodeGrowStep
          \/ /\ pc = "train_init" /\ pc' = "val_init"
             /\ Range(tok_vocab') \ Range(tok_vocab) = {TaskStartToken}
             /\ Range(added_tokens') \ Range(added_tokens) = {TaskStartToken}]_vars

C4_Witness ==
    /\ pc = "fit"
    /\ val_out.idx # 0
    /\ Len(tok_vocab) > 1
    /\ tok_vocab[Len(tok_vocab)] = TaskStartToken

IsPrefix(s, t) == Len(s) <= Len(t) /\ SubSeq(t, 1, Len(s)) = s

RECURSIVE KeysOf(_)
\* the keys of a structured value, at every nesting level
KeysOf(v) ==
    IF v[1] = "dict"
    THEN UNION {{v[2][i][1]} \cup KeysOf(v[2][i][2]) : i \in 1..Len(v[2])}
    ELSE {}

TagPairs(keys) ==
    {<<"<", "s", "_">> \o k \o <<">">> : k \in keys}
        \cup {<<"<", "/", "s", "_">> \o k \o <<">">> : k \in keys}

\* C5: the vocabulary starts empty; no step removes or reorders a token of the
\* tokenizer's additions or of added_tokens; and an Encode(v, true) step adds
\* nothing but open/close tags of keys of v.
C5_VocabularyMonotone ==
    /\ tok_vocab = <<>> /\ added_tokens = <<>>
    /\ [][/\ IsPrefix(tok_vocab, tok_vocab')
          /\ IsPrefix(added_tokens, added_tokens')
          /\ EncodeGrowStep =>
                LET v == train_ds.dataset[Len(train_ds.gt_token_sequences) + 1]
                IN  /\ Range(tok_vocab') \ Range(tok_vocab) \subseteq TagPairs(KeysOf(v))
                    /\ Range(added_tokens') \ Range(added_tokens)
                          \subseteq TagPairs(KeysOf(v))]_vars

C5_Witness ==
    /\ pc = "fit"
    /\ Len(tok_vocab) >= 7
    /\ Len(added_tokens) > Len(tok_vocab)

Validated == val_out.idx # 0

LongerLen == Max2(Len(val_out.pred), Len(val_out.answer))

C9_StartTokenIsTaskToken ==
    pc = "fit" =>
       /\ decoder_start_token_id = convert_tokens_to_ids(TaskStartToken, tok_vocab)
       /\ decoder_start_token_id # unk_token_id

\* the structural tags <s_k> and </s_k> that occur in a token sequence
TagsIn(s) ==
    {SubSeq(s, i, Find(s, <<">">>, i)) :
        i \in {n \in 1..Len(s) :
                 /\ \/ OccursAt(s, <<"<", "s", "_">>, n)
                    \/ OccursAt(s, <<"<", "/", "s", "_">>, n)
                 /\ Find(s, <<">">>, n) # 0}}

TagsOf(ds) == UNION {TagsIn(ds.gt_token_sequences[i]) : i \in Encoded(ds)}

DatasetsBuilt == pc \in {"loaders", "fit", "crashed"}

\* C10 as stated: once both datasets are built, every tag of every stored
\* sequence, training or validation, is in the vocabulary.
C10_AllTagsInVocabulary ==
    DatasetsBuilt => TagsOf(train_ds) \cup TagsOf(val_ds) \subseteq Range(tok_vocab)

\* C10 as amended: once both datasets are built, every tag of a training
\* sequence is in the vocabulary, and a tag of a validation sequence is in the
\* vocabulary exactly when it is a tag of a training sequence or the task start
\* token.
C10_TrainTagsInVocabulary ==
    DatasetsBuilt =>
       /\ TagsOf(train_ds) \subseteq Range(tok_vocab)
       /\ \A t \in TagsOf(val_ds) :
             t \in Range(tok_vocab) <=> t \in TagsOf(train_ds) \cup {TaskStartToken}

C10_Witness ==
    /\ DatasetsBuilt
    /\ Len(train_ds.dataset) > 0
    /\ \E j \in Encoded(val_ds) : val_ds.dataset[j] = UnseenKeyRecord

\* the decoded sequence is the task start token, the encoding of the item's
\* record and the end-of-sequence token, and lines 134-140 have run
CleanedPerfectSequence ==
    /\ pc \in {"normalized", "answer_cleaned", "scored", "crashed"}
    /\ val_out.seq = TaskStartToken \o Linearized(val_ds.dataset[1]) \o eos_token

\* C8: cleaning (task start tag + Encode(v) + end-of-sequence token) yields
\* exactly Encode(v), for every record v with string leaves.
C8_CleanupYieldsAnswer ==
    CleanedPerfectSequence => val_out.pred = Linearized(val_ds.dataset[1])

RECURSIVE StringLeaved(_)
\* a structured value whose leaves are all strings without tag-like substrings
StringLeaved(v) ==
    IF v[1] = "dict" THEN \A i \in 1..Len(v[2]) : StringLeaved(v[2][i][2])
    ELSE /\ v[1] = "str"
         /\ ~Contains(v[2], <<"<", "s", "_">>)
         /\ ~Contains(v[2], <<"<", "/", "s", "_">>)

\* C2: decoding the encoding (with vocabulary growth) of a record whose leaves
\* are strings without tag-like substrings gives the record back: same keys,
\* same key order at every level, same leaves.
C2_RoundTrip ==
    \A i \in Encoded(train_ds) :
       StringLeaved(train_ds.dataset[i])
          => Decode(CleanAnswer(train_ds.gt_token_sequences[i])) = train_ds.dataset[i]

====
